---------------------------- MODULE Spec2Model ----------------------------
(***************************************************************************)
(* A model of apihat-node: the Express middleware factory useApiHat and    *)
(* its reporter sendPayloadToApiHat (src/src/apihat.js), together with the *)
(* older copy of the same module kept in the repository                    *)
(* (src/unnamed/part_000), which differs in the wire body and the sizes.   *)
(*                                                                         *)
(* JavaScript values are records tagged with their type.  Strings are      *)
(* sequences of code points, so that byte lengths and JSON texts are       *)
(* computed, not assumed.  An operation that can throw returns a record    *)
(* [ok |-> BOOLEAN, v |-> result].                                         *)
(*                                                                         *)
(* The framework's own res.send / res.render (the "originals" the wrappers *)
(* delegate to) and node-fetch are the environment: the originals are      *)
(* sinks that record the arguments they are called with, and a fetch call  *)
(* is a pending promise that the environment later settles.                *)
(***************************************************************************)
EXTENDS Integers, Sequences, FiniteSets, TLC

\* ---------------------------------------------------------------- bounds
NReq == 2
MaxCalls == 2
MaxClock == 2000000000

\* ------------------------------------------------------- program constants
NS_PER_SEC == 1000000000
NS_TO_MICRO == 1000
BYTES_PER_KB == 1024

\* ------------------------------------------------------ JavaScript values
Undefined == [t |-> "undefined"]
Null == [t |-> "null"]
Str(s) == [t |-> "string", s |-> s]
Num(n) == [t |-> "number", n |-> n]
Bool(b) == [t |-> "boolean", b |-> b]
Obj(fields) == [t |-> "object", fields |-> fields]
Fn(name) == [t |-> "function", name |-> name]
ErrorObject(msg) == [t |-> "error", message |-> msg, fileName |-> Undefined,
                     lineNumber |-> Undefined]

\* typeof v
TypeOf(v) ==
  CASE v.t = "undefined" -> "undefined"
    [] v.t = "null" -> "object"
    [] v.t = "string" -> "string"
    [] v.t = "number" -> "number"
    [] v.t = "boolean" -> "boolean"
    [] v.t = "function" -> "function"
    [] OTHER -> "object"

\* ToBoolean(v)
Truthy(v) ==
  CASE v.t = "undefined" -> FALSE
    [] v.t = "null" -> FALSE
    [] v.t = "string" -> Len(v.s) > 0
    [] v.t = "number" -> v.n # 0
    [] v.t = "boolean" -> v.b
    [] OTHER -> TRUE

\* a || b
JsOr(a, b) == IF Truthy(a) THEN a ELSE b

\* ----------------------------------------------------------- text helpers
RECURSIVE Digits(_)
Digits(n) == IF n < 10 THEN <<48 + n>> ELSE Digits(n \div 10) \o <<48 + (n % 10)>>

\* Number.prototype.toString for the non-negative integers of the model
NumText(n) == Digits(n)

BoolText(b) == IF b THEN <<116, 114, 117, 101>> ELSE <<102, 97, 108, 115, 101>>

NullText == <<110, 117, 108, 108>>

\* JSON.stringify's escaping of one character of a string
JsonEscapeChar(c) ==
  IF c = 34 \/ c = 92 THEN <<92, c>> ELSE <<c>>

RECURSIVE JsonEscape(_)
JsonEscape(s) ==
  IF s = <<>> THEN <<>> ELSE JsonEscapeChar(Head(s)) \o JsonEscape(Tail(s))

JsonQuote(s) == <<34>> \o JsonEscape(s) \o <<34>>

\* JSON text of a primitive (the values object fields hold in the model)
JsonPrim(v) ==
  CASE v.t = "string" -> JsonQuote(v.s)
    [] v.t = "number" -> NumText(v.n)
    [] v.t = "boolean" -> BoolText(v.b)
    [] OTHER -> NullText

RECURSIVE JsonFields(_)
JsonFields(fs) ==
  IF fs = <<>> THEN <<>>
  ELSE JsonQuote(Head(fs)[1]) \o <<58>> \o JsonPrim(Head(fs)[2])
       \o (IF Tail(fs) = <<>> THEN <<>> ELSE <<44>> \o JsonFields(Tail(fs)))

\* JSON.stringify(v) for the values of the model: the text, as code points.
\* (JSON.stringify(undefined) is undefined, not a text; the code never
\* reaches it with undefined: line 18 passes req.body || '', lines 94-95
\* only pass typeof-object values.)
JSONstringify(v) ==
  CASE v.t = "object" -> <<123>> \o JsonFields(v.fields) \o <<125>>
    [] v.t = "error" -> <<123, 125>>
    [] OTHER -> JsonPrim(v)

\* UTF-8 length of one code point
Utf8CharLen(c) ==
  IF c < 128 THEN 1 ELSE IF c < 2048 THEN 2 ELSE IF c < 65536 THEN 3 ELSE 4

RECURSIVE Utf8Len(_)
Utf8Len(s) == IF s = <<>> THEN 0 ELSE Utf8CharLen(Head(s)) + Utf8Len(Tail(s))

\* Buffer.byteLength(v, 'utf8'): the byte length of a string; a TypeError
\* (ERR_INVALID_ARG_TYPE) for anything that is not a string or a buffer.
BufferByteLength(v) ==
  IF v.t = "string" THEN [ok |-> TRUE, v |-> Utf8Len(v.s)]
  ELSE [ok |-> FALSE, v |-> 0]

\* n / 1024 as JavaScript computes it: an exact binary fraction, kept as the
\* pair numerator/denominator.
DivideBy(n, d) == [num |-> n, den |-> d]

\* ------------------------------------------------------------ the clock
\* process.hrtime(): <<seconds, nanoseconds>> of the monotonic clock
Hrtime(now) == <<now \div NS_PER_SEC, now % NS_PER_SEC>>

\* process.hrtime(startTime): the difference to an earlier reading
HrtimeSince(now, startTime) ==
  LET t == Hrtime(now)
      sec == t[1] - startTime[1]
      ns == t[2] - startTime[2]
  IN IF ns < 0 THEN <<sec - 1, ns + NS_PER_SEC>> ELSE <<sec, ns>>

\* Math.ceil(a / b) for a >= 0, b > 0
MathCeilDiv(a, b) == IF a % b = 0 THEN a \div b ELSE (a \div b) + 1

\* getRequestDuration with Math.floor in place of Math.ceil
getRequestDurationFloor(startTime, now) ==
  LET diff == HrtimeSince(now, startTime)
  IN (diff[1] * NS_PER_SEC + diff[2]) \div NS_TO_MICRO

\* apihat.js 166-172
getRequestDuration(startTime, now) ==
  LET diff == HrtimeSince(now, startTime)
  IN MathCeilDiv(diff[1] * NS_PER_SEC + diff[2], NS_TO_MICRO)

\* a masking helper that redacts: every payload is replaced
maskSensitiveValuesRedacts(payload, fieldsToMaskMap) == [t |-> "null"]

\* apihat.js 177-179
maskSensitiveValues(payload, fieldsToMaskMap) == payload

\* ------------------------------------------------------------ the reporter
CollectorUrl == "https://api.apihat.com/api/requests"

\* the error descriptor pushed without the test "if (error)"
ErrorsOfUnconditional(error) ==
  << [source |-> "onException", type |-> "UNHANDLED_EXCEPTION",
      message |-> IF Truthy(error) THEN error.message ELSE Undefined,
      file |-> Undefined, line |-> Undefined] >>

\* apihat.js 79-89: the error descriptors
ErrorsOf(error) ==
  IF Truthy(error)
  THEN << [source |-> "onException", type |-> "UNHANDLED_EXCEPTION",
           message |-> error.message, file |-> error.fileName,
           line |-> error.lineNumber] >>
  ELSE << >>

\* apihat.js 94-95: typeof body === 'object' ? JSON.stringify(body) : body || ''
BodyString(body) ==
  IF TypeOf(body) = "object" THEN Str(JSONstringify(body)) ELSE JsOr(body, Str(<<>>))

\* apihat.js 98-99: Buffer.byteLength(bodyString, 'utf8') / 1024
SizeInKB(body) ==
  LET n == BufferByteLength(BodyString(body))
  IN [ok |-> n.ok, v |-> DivideBy(n.v, BYTES_PER_KB)]

\* x !== undefined ? x : null
OrNull(x) == IF x = Undefined THEN Null ELSE x

\* apihat.js 101-143: dataToSend, a one-element array
dataToSendArray(apiKey, projectId, requestData, responseData, requestStartTime, error, fieldsToMaskMap, now) ==
  << [api_key |-> apiKey,
      project_id |-> projectId,
      version |-> "1.0.0",
      sdk |-> "node",
      data |-> [
        request |-> [
          url |-> requestData.url,
          method |-> requestData.method,
          headers |-> maskSensitiveValues(requestData.headers, fieldsToMaskMap),
          body |-> OrNull(maskSensitiveValues(requestData.body, fieldsToMaskMap)),
          size |-> SizeInKB(requestData.body).v],
        response |-> [
          headers |-> maskSensitiveValues(responseData.headers, fieldsToMaskMap),
          code |-> responseData.statusCode,
          size |-> SizeInKB(responseData.body).v,
          load_time |-> getRequestDuration(requestStartTime, now),
          body |-> OrNull(maskSensitiveValues(responseData.body, fieldsToMaskMap))],
        errors |-> ErrorsOf(error)]] >>

\* part_000 124-163: dataToSend, a bare record without the request size
dataToSendObject(apiKey, projectId, requestData, responseData, requestStartTime, error, fieldsToMaskMap, now) ==
  [api_key |-> apiKey,
   project_id |-> projectId,
   version |-> "1.0.0",
   sdk |-> "node",
   data |-> [
     request |-> [
       url |-> requestData.url,
       method |-> requestData.method,
       headers |-> maskSensitiveValues(requestData.headers, fieldsToMaskMap),
       body |-> OrNull(maskSensitiveValues(requestData.body, fieldsToMaskMap))],
     response |-> [
       headers |-> maskSensitiveValues(responseData.headers, fieldsToMaskMap),
       code |-> responseData.statusCode,
       size |-> JsOr(responseData.length, Null),
       load_time |-> getRequestDuration(requestStartTime, now),
       body |-> OrNull(maskSensitiveValues(responseData.body, fieldsToMaskMap))],
     errors |-> ErrorsOf(error)]]

\* JSON.stringify of an error descriptor: properties holding undefined are
\* left out of the text.
JsonOfError(e) ==
  [k \in {"source", "type"} \cup {f \in {"message", "file", "line"} : e[f] # Undefined}
     |-> e[k]]

JsonOfRecord(rec) ==
  [rec EXCEPT !.data.errors =
     [i \in 1..Len(rec.data.errors) |-> JsonOfError(rec.data.errors[i])]]

\* JSON.stringify(dataToSend): the text, kept as its parse tree.  A
\* JavaScript array becomes a JSON array of its elements' texts, a plain
\* object a JSON object.
JSONstringifyData(isArray, dataToSend) ==
  IF isArray
  THEN [json |-> "array",
        items |-> [i \in 1..Len(dataToSend) |-> JsonOfRecord(dataToSend[i])]]
  ELSE [json |-> "object", items |-> << JsonOfRecord(dataToSend) >>]

\* the fetch call with the header taken from one credential kept by the module
FetchCallFixedKey(apiKey, body) ==
  [url |-> CollectorUrl,
   method |-> "POST",
   headers |-> [contentType |-> "application/json", xApiKey |-> "key-A"],
   body |-> body]

\* apihat.js 145-152 (part_000 165-172): the arguments of the fetch call
FetchCall(apiKey, body) ==
  [url |-> CollectorUrl,
   method |-> "POST",
   headers |-> [contentType |-> "application/json", xApiKey |-> apiKey],
   body |-> body]

\* apihat.js 75-161: sendPayloadToApiHat up to and including the fetch call.
\* ok = FALSE when a statement before the call throws (lines 98-99).
sendPayloadToApiHat(apiKey, projectId, requestData, responseData, requestStartTime, error, fieldsToMaskMap, now) ==
  LET rq == SizeInKB(requestData.body)
      rs == SizeInKB(responseData.body)
  IN IF ~rq.ok \/ ~rs.ok
     THEN [ok |-> FALSE, v |-> Undefined]
     ELSE [ok |-> TRUE,
           v |-> FetchCall(apiKey,
                   JSONstringifyData(TRUE,
                     dataToSendArray(apiKey, projectId, requestData, responseData,
                                     requestStartTime, error, fieldsToMaskMap, now)))]

\* part_000 106-181: the older reporter; nothing in it throws
sendPayloadToApiHatOld(apiKey, projectId, requestData, responseData, requestStartTime, error, fieldsToMaskMap, now) ==
  [ok |-> TRUE,
   v |-> FetchCall(apiKey,
           JSONstringifyData(FALSE,
             dataToSendObject(apiKey, projectId, requestData, responseData,
                              requestStartTime, error, fieldsToMaskMap, now)))]

\* ------------------------------------------------------------ the inputs
Reqs == 1..NReq

\* "ok", "index", "hi" as code points
TextOk == <<111, 107>>
TextIndex == <<105, 110, 100, 101, 120>>
TextHi == <<104, 105>>

ObjOk == Obj(<< <<TextOk, Bool(TRUE)>> >>)

\* req.body as the body parsers leave it: absent, null, a string (with a
\* two-byte character), a plain object, a number (truthy and falsy), a boolean
ReqBodies == {Undefined, Null, Str(<<97, 233>>), ObjOk, Num(5), Num(0), Bool(TRUE)}

\* what a handler passes to res.send
SendBodies == {Str(TextHi), ObjOk, Num(5)}

\* the reduced inputs of the runs with several requests in flight: each
\* request has values of its own
OwnReqBodies(r) == {Undefined, Obj(<< <<TextOk, Num(r)>> >>)}
OwnSendBodies(r) == {Str(TextHi \o Digits(r))}

\* what a handler passes to res.render: <<view, options, callback>>
RenderArgs ==
  { <<Str(TextIndex), Undefined, Undefined>>,
    <<Str(TextIndex), Fn("done"), Undefined>>,
    <<Str(TextIndex), Obj(<<>>), Fn("done")>> }

StatusCodes == {404, 500}

\* the credentials the factory is called with, one middleware per call
Factories ==
  << [apiKey |-> "key-A", projectId |-> "project-A"],
     [apiKey |-> "key-B", projectId |-> "project-B"] >>

\* the request as it arrives: everything but the body is fixed per request
RequestOf(r, body) ==
  [body |-> body,
   headers |-> [userAgent |-> "agent", requestId |-> r],
   method |-> IF body = Undefined THEN "GET" ELSE "POST",
   originalUrl |-> <<"/r", r>>,
   ip |-> <<"10.0.0", r>>,
   protocol |-> "http",
   httpVersion |-> "1.1"]

\* a fresh response object: the framework's own send and render, status 200
FreshResponse ==
  [send |-> "original", render |-> "original",
   apiHatBody |-> Undefined,
   statusCode |-> 200,
   localsError |-> Undefined,
   contentLength |-> Undefined,
   endedBy |-> "no",
   payload |-> Undefined,
   finished |-> FALSE,
   listeners |-> 0,
   delivered |-> << >>,
   returned |-> Undefined]

NoClosure == [mw |-> 0]

StartClocks == {999999500}
Deltas == {1, NS_TO_MICRO, 1500, NS_PER_SEC}

VARIABLES impl, running, clock, pc, req, res, closure, bare, outbox, log, uncaught, unhandled, cbRuns

vars == <<impl, running, clock, pc, req, res, closure, bare, outbox, log, uncaught, unhandled, cbRuns>>

\* bare[r] is the response object of the same request in the run without the
\* middleware: the handlers' calls reach the framework's own methods.
\* outbox[i].by and .at and closure[r].enteredAt only record who issued a
\* call and when; the program does not read them.

\* ------------------------------------------------- the framework (environment)
\* The rendered page of a view: not the view's name.
Rendered(view) == [t |-> "rendered", view |-> view]

\* The response object itself, as a value: what the framework's res.send
\* returns ("return this"), so that calls can be chained.
ThisResponse == [t |-> "response"]

\* The framework's res.send, reached as originalSend(body): records its
\* argument; the first call that ends the response decides what the client
\* gets.  returned is what the call site of the last send or render got back.
originalSend(rs, body) ==
  [rs EXCEPT !.delivered = Append(@, [op |-> "send", args |-> <<body>>]),
             !.endedBy = IF @ = "no" THEN "send" ELSE @,
             !.payload = IF rs.endedBy = "no" THEN body ELSE @,
             !.returned = ThisResponse]

\* The framework's res.render, reached as originalRender(view, options,
\* callback): with no callback the rendered page is sent, with one it is
\* handed to the callback and nothing is sent.  It returns nothing.
originalRender(rs, view, options, callback) ==
  LET done == IF TypeOf(options) = "function" THEN options ELSE callback
      sends == done = Undefined /\ rs.endedBy = "no"
  IN [rs EXCEPT !.delivered = Append(@, [op |-> "render", args |-> <<view, options, callback>>]),
                !.endedBy = IF sends THEN "render" ELSE @,
                !.payload = IF sends THEN Rendered(view) ELSE @,
                !.returned = Undefined]

\* ------------------------------------------------------------ the middleware
\* the send wrapper delegating without its argument: originalSend()
SendWrapperLosesBody(rs, body) ==
  [originalSend([rs EXCEPT !.apiHatBody = body], Undefined) EXCEPT !.returned = Undefined]

\* apihat.js 20-23: the replacement of res.send.  The function has no return
\* statement: its caller gets undefined.
SendWrapper(rs, body) ==
  [originalSend([rs EXCEPT !.apiHatBody = body], body) EXCEPT !.returned = Undefined]

\* apihat.js 25-33: the replacement of res.render
RenderWrapper(rs, view, options, callback) ==
  LET isFn == TypeOf(options) = "function"
      cb == IF isFn THEN options ELSE callback
      opts == IF isFn THEN Obj(<<>>) ELSE options
  IN [originalRender([rs EXCEPT !.apiHatBody = view], view, opts, cb) EXCEPT !.returned = Undefined]

\* a call res.send(body): whatever the method slot holds
ResSend(rs, body) ==
  IF rs.send = "wrapper" THEN SendWrapper(rs, body) ELSE originalSend(rs, body)

\* a call res.render(view, options, callback)
ResRender(rs, view, options, callback) ==
  IF rs.render = "wrapper" THEN RenderWrapper(rs, view, options, callback)
  ELSE originalRender(rs, view, options, callback)

\* apihat.js 18: Buffer.byteLength(JSON.stringify(req.body || ''), 'utf8')
RequestSize(body) == BufferByteLength(Str(JSONstringify(JsOr(body, Str(<<>>)))))

\* apihat.js 12-18 (part_000 56-59): what the invocation keeps in its closure
ClosureOf(m, body, now) ==
  [mw |-> m,
   enteredAt |-> now,
   apiKey |-> Factories[m].apiKey,
   projectId |-> Factories[m].projectId,
   requestStartTime |-> Hrtime(now),
   requestSize |-> RequestSize(body).v]

\* only res.send replaced, res.render left as the framework's
InstallWrappersSendOnly(variant, rs) == [rs EXCEPT !.send = "wrapper"]

\* apihat.js 20-33: both methods replaced; part_000 61-67: only send
InstallWrappers(variant, rs) ==
  IF variant = "apihat.js" THEN [rs EXCEPT !.send = "wrapper", !.render = "wrapper"]
  ELSE [rs EXCEPT !.send = "wrapper"]

\* the listener registered before and after next()
RegisterListenerTwice(rs) == [rs EXCEPT !.listeners = @ + 2]

\* the registration writing back into res.locals: res.locals.error = null
RegisterListenerClearsError(rs) ==
  [rs EXCEPT !.listeners = @ + 1, !.localsError = [t |-> "null"]]

\* apihat.js 39: res.on("finish", ...)
RegisterListener(rs) == [rs EXCEPT !.listeners = @ + 1]

\* res.getHeaders()
GetHeaders(rs) == [contentLength |-> rs.contentLength]

\* apihat.js 43: res.get("Content-Length") || Buffer.byteLength(body || '', 'utf8')
ResponseSize(rs) ==
  IF Truthy(rs.contentLength) THEN [ok |-> TRUE, v |-> rs.contentLength]
  ELSE LET n == BufferByteLength(JsOr(rs.apiHatBody, Str(<<>>)))
       IN [ok |-> n.ok, v |-> Num(n.v)]

RequestData(cl, rq) ==
  [body |-> rq.body, headers |-> rq.headers, method |-> rq.method,
   url |-> rq.originalUrl, ip |-> rq.ip, protocol |-> rq.protocol,
   httpVersion |-> rq.httpVersion, size |-> cl.requestSize]

ResponseData(rs, length) ==
  [body |-> rs.apiHatBody, headers |-> GetHeaders(rs),
   statusCode |-> rs.statusCode, length |-> length]

\* apihat.js 39-68: the finish listener.  ok = FALSE when it throws.
FinishCallback(cl, rq, rs, now) ==
  LET error == JsOr(rs.localsError, Null)
      fieldsToMaskMap == {}
      responseSize == ResponseSize(rs)
  IN IF ~responseSize.ok THEN [ok |-> FALSE, v |-> Undefined]
     ELSE sendPayloadToApiHat(cl.apiKey, cl.projectId, RequestData(cl, rq),
                              ResponseData(rs, responseSize.v),
                              cl.requestStartTime, error, fieldsToMaskMap, now)

\* part_000 73-99: the older finish listener
FinishCallbackOld(cl, rq, rs, now) ==
  LET error == JsOr(rs.localsError, Null)
      fieldsToMaskMap == {}
  IN sendPayloadToApiHatOld(cl.apiKey, cl.projectId, RequestData(cl, rq),
                            ResponseData(rs, JsOr(rs.contentLength, Null)),
                            cl.requestStartTime, error, fieldsToMaskMap, now)

\* the listener the variant registers
Listener(variant, cl, rq, rs, now) ==
  IF variant = "apihat.js" THEN FinishCallback(cl, rq, rs, now)
  ELSE FinishCallbackOld(cl, rq, rs, now)

\* the promise chain without its .catch: a rejection is nobody's
PromiseChainNoCatch(outcome) ==
  [log |-> CASE outcome = "not_ok" -> << "console.log" >>
             [] OTHER -> << >>,
   unhandled |-> outcome = "rejected"]

\* apihat.js 153-160: the promise chain on the fetch call.  What is logged
\* for an outcome, and whether a rejection is left unhandled.
PromiseChain(outcome) ==
  [log |-> CASE outcome = "not_ok" -> << "console.log" >>
             [] outcome = "rejected" -> << "console.error" >>
             [] OTHER -> << >>,
   unhandled |-> FALSE]

\* ------------------------------------------------------------ the actions
InitCommon ==
  /\ running = 0
  /\ clock \in StartClocks
  /\ pc = [r \in Reqs |-> "idle"]
  /\ req = [r \in Reqs |-> RequestOf(r, Undefined)]
  /\ res = [r \in Reqs |-> FreshResponse]
  /\ closure = [r \in Reqs |-> NoClosure]
  /\ bare = [r \in Reqs |-> FreshResponse]
  /\ cbRuns = [r \in Reqs |-> 0]
  /\ outbox = << >>
  /\ log = << >>
  /\ uncaught = {}
  /\ unhandled = {}

Init == impl = "apihat.js" /\ InitCommon

InitOld == impl = "part_000" /\ InitCommon

\* apihat.js 11-18: a request reaches middleware m; the start time, the
\* originals and the request size are taken.
Enter(r, m, body) ==
  /\ running = 0
  /\ pc[r] = "idle"
  /\ running' = r
  /\ pc' = [pc EXCEPT ![r] = "entered"]
  /\ req' = [req EXCEPT ![r] = RequestOf(r, body)]
  /\ closure' = [closure EXCEPT ![r] = ClosureOf(m, body, clock)]
  /\ UNCHANGED <<impl, clock, res, bare, outbox, log, uncaught, unhandled, cbRuns>>

\* apihat.js 20-33
Wrap(r) ==
  /\ running = r
  /\ pc[r] = "entered"
  /\ pc' = [pc EXCEPT ![r] = "wrapped"]
  /\ res' = [res EXCEPT ![r] = InstallWrappers(impl, @)]
  /\ UNCHANGED <<impl, running, clock, req, closure, bare, outbox, log, uncaught, unhandled, cbRuns>>

\* apihat.js 36: next()
CallNext(r) ==
  /\ running = r
  /\ pc[r] = "wrapped"
  /\ pc' = [pc EXCEPT ![r] = "in_next"]
  /\ UNCHANGED <<impl, running, clock, req, res, closure, bare, outbox, log, uncaught, unhandled, cbRuns>>

\* apihat.js 39: next() has returned; the listener is registered and the
\* invocation returns.
Listen(r) ==
  /\ running = r
  /\ pc[r] = "in_next"
  /\ pc' = [pc EXCEPT ![r] = "listening"]
  /\ res' = [res EXCEPT ![r] = RegisterListener(@)]
  /\ running' = 0
  /\ UNCHANGED <<impl, clock, req, closure, bare, outbox, log, uncaught, unhandled, cbRuns>>

\* The downstream pipeline works on the response inside next() or, for an
\* asynchronous handler, in a later turn of the event loop.
HandlerMayAct(r) ==
  /\ \/ pc[r] = "in_next"
     \/ pc[r] = "listening" /\ running = 0
  /\ ~res[r].finished

HandlerStatus(r, code) ==
  /\ HandlerMayAct(r)
  /\ res[r].endedBy = "no"
  /\ res[r].statusCode = 200
  /\ res' = [res EXCEPT ![r].statusCode = code]
  /\ bare' = [bare EXCEPT ![r].statusCode = code]
  /\ UNCHANGED <<impl, running, clock, pc, req, closure, outbox, log, uncaught, unhandled, cbRuns>>

\* res.locals.error = err
HandlerError(r) ==
  /\ HandlerMayAct(r)
  /\ res[r].endedBy = "no"
  /\ res[r].localsError = Undefined
  /\ res' = [res EXCEPT ![r].localsError = ErrorObject(Str(<<98, 111, 111, 109>> \o Digits(r)))]
  /\ bare' = [bare EXCEPT ![r].localsError = ErrorObject(Str(<<98, 111, 111, 109>> \o Digits(r)))]
  /\ UNCHANGED <<impl, running, clock, pc, req, closure, outbox, log, uncaught, unhandled, cbRuns>>

\* res.set("Content-Length", "7")
HandlerContentLength(r) ==
  /\ HandlerMayAct(r)
  /\ res[r].endedBy = "no"
  /\ res[r].contentLength = Undefined
  /\ res' = [res EXCEPT ![r].contentLength = Str(<<55>>)]
  /\ bare' = [bare EXCEPT ![r].contentLength = Str(<<55>>)]
  /\ UNCHANGED <<impl, running, clock, pc, req, closure, outbox, log, uncaught, unhandled, cbRuns>>

HandlerSend(r, body) ==
  /\ HandlerMayAct(r)
  /\ Len(bare[r].delivered) < MaxCalls
  /\ bare' = [bare EXCEPT ![r] = originalSend(@, body)]
  /\ res' = [res EXCEPT ![r] = ResSend(@, body)]
  /\ UNCHANGED <<impl, running, clock, pc, req, closure, outbox, log, uncaught, unhandled, cbRuns>>

HandlerRender(r, a) ==
  /\ HandlerMayAct(r)
  /\ Len(bare[r].delivered) < MaxCalls
  /\ bare' = [bare EXCEPT ![r] = originalRender(@, a[1], a[2], a[3])]
  /\ res' = [res EXCEPT ![r] = ResRender(@, a[1], a[2], a[3])]
  /\ UNCHANGED <<impl, running, clock, pc, req, closure, outbox, log, uncaught, unhandled, cbRuns>>

\* The response is ended without send or render (res.end(), the framework's
\* final handler after a handler threw).
HandlerEnd(r) ==
  /\ HandlerMayAct(r)
  /\ res[r].endedBy = "no"
  /\ res' = [res EXCEPT ![r].endedBy = "end"]
  /\ bare' = [bare EXCEPT ![r].endedBy = "end"]
  /\ UNCHANGED <<impl, running, clock, pc, req, closure, outbox, log, uncaught, unhandled, cbRuns>>

\* the response kept in a variable of the module, shared by all requests
CallbackScopeShared(r) == [cl |-> closure[r], rq |-> req[r], rs |-> res[1]]

\* apihat.js 11-12, 39-68: what the listener of request r closes over: the
\* invocation's own bindings, request and response.
CallbackScope(r) == [cl |-> closure[r], rq |-> req[r], rs |-> res[r]]

\* The response's "finish" event, emitted in a turn of its own, d nanoseconds
\* after the previous event, once the response has ended: every registered
\* listener runs.
RECURSIVE RunListeners(_, _, _, _)
RunListeners(n, r, now, st) ==
  IF n = 0 THEN st
  ELSE LET scope == CallbackScope(r)
           out == Listener(impl, scope.cl, scope.rq, scope.rs, now)
           nxt == IF out.ok
                  THEN [st EXCEPT !.outbox = Append(@, [call |-> out.v, by |-> r, at |-> now, state |-> "pending"]),
                                  !.runs = @ + 1]
                  ELSE [st EXCEPT !.uncaught = @ \cup {r}, !.runs = @ + 1]
       IN RunListeners(n - 1, r, now, nxt)

Finish(r, d) ==
  /\ running = 0
  /\ res[r].endedBy # "no"
  /\ ~res[r].finished
  /\ d <= MaxClock - clock
  /\ clock' = clock + d
  /\ LET st == RunListeners(res[r].listeners, r, clock + d, [outbox |-> outbox, uncaught |-> uncaught, runs |-> 0])
     IN /\ outbox' = st.outbox
        /\ uncaught' = st.uncaught
        /\ cbRuns' = [cbRuns EXCEPT ![r] = @ + st.runs]
  /\ res' = [res EXCEPT ![r].finished = TRUE]
  /\ bare' = [bare EXCEPT ![r].finished = TRUE]
  /\ UNCHANGED <<impl, running, pc, req, closure, log, unhandled>>

\* node-fetch settles the promise of an outbound call.
FetchSettles(i, outcome) ==
  /\ running = 0
  /\ i \in 1..Len(outbox)
  /\ outbox[i].state = "pending"
  /\ outbox' = [outbox EXCEPT ![i].state = outcome]
  /\ log' = log \o [k \in 1..Len(PromiseChain(outcome).log) |-> [stream |-> PromiseChain(outcome).log[k], call |-> i]]
  /\ unhandled' = IF PromiseChain(outcome).unhandled THEN unhandled \cup {i} ELSE unhandled
  /\ UNCHANGED <<impl, running, clock, pc, req, res, closure, bare, uncaught, cbRuns>>

\* One request, the full input sets.
Next ==
  \/ \E m \in 1..Len(Factories), body \in ReqBodies : Enter(1, m, body)
  \/ Wrap(1)
  \/ CallNext(1)
  \/ Listen(1)
  \/ \E code \in StatusCodes : HandlerStatus(1, code)
  \/ HandlerError(1)
  \/ HandlerContentLength(1)
  \/ \E body \in SendBodies : HandlerSend(1, body)
  \/ \E a \in RenderArgs : HandlerRender(1, a)
  \/ HandlerEnd(1)
  \/ \E d \in Deltas : Finish(1, d)
  \/ \E outcome \in {"ok", "not_ok", "rejected"} : FetchSettles(1, outcome)

\* Several requests in flight, each with inputs of its own.
NextConcurrent ==
  \/ \E r \in Reqs, m \in 1..Len(Factories) : \E body \in OwnReqBodies(r) : Enter(r, m, body)
  \/ \E r \in Reqs : Wrap(r)
  \/ \E r \in Reqs : CallNext(r)
  \/ \E r \in Reqs : Listen(r)
  \/ \E r \in Reqs : HandlerStatus(r, 500)
  \/ \E r \in Reqs : HandlerError(r)
  \/ \E r \in Reqs : \E body \in OwnSendBodies(r) : HandlerSend(r, body)
  \/ \E r \in Reqs : HandlerEnd(r)
  \/ \E r \in Reqs, d \in {NS_TO_MICRO, NS_PER_SEC} : Finish(r, d)

Spec == Init /\ [][Next]_vars

SpecConcurrent == Init /\ [][NextConcurrent]_vars

\* The older copy of the module, one request.
SpecOld == InitOld /\ [][Next]_vars

\* ------------------------------------------------------------ the claims
\* the telemetry record carried by outbound call i
RecordOf(i) == outbox[i].call.body.items[1]

\* The render wrapper's rewriting of its arguments (apihat.js 27-30), as a
\* relation between the call a handler makes and the call the original gets.
NormalizedCall(c) ==
  IF c.op = "render" /\ TypeOf(c.args[2]) = "function"
  THEN [op |-> "render", args |-> <<c.args[1], Obj(<<>>), c.args[2]>>]
  ELSE c

C2_ExactlyOnce ==
  \A r \in Reqs :
    /\ cbRuns[r] = IF res[r].finished THEN 1 ELSE 0
    /\ res[r].finished => pc[r] = "listening"

\* the finish event of a response the pipeline ended with status 500 and
\* without send or render
C2_Witness ==
  \E r \in Reqs :
    /\ res[r].finished
    /\ cbRuns[r] = 1
    /\ res[r].statusCode = 500
    /\ res[r].endedBy = "end"

\* C3: when the outbound call is rejected or resolves with a non-success
\* status, one line is logged and nothing else happens: no rejection is left
\* unhandled, nothing is thrown, and no request or response changes.
C3_OnlyLogged ==
  [][\A i \in 1..Len(outbox) :
       (outbox[i].state = "pending" /\ outbox'[i].state \in {"not_ok", "rejected"})
         => /\ unhandled' = {}
            /\ uncaught' = uncaught
            /\ res' = res
            /\ bare' = bare
            /\ req' = req
            /\ pc' = pc
            /\ running' = running
            /\ Len(log') = Len(log) + 1
            /\ log'[Len(log')].call = i]_vars

\* a rejected call, logged, for a finished response
C3_Witness ==
  \E i \in 1..Len(outbox) :
    /\ outbox[i].state = "rejected"
    /\ \E k \in 1..Len(log) : log[k].call = i /\ log[k].stream = "console.error"
    /\ res[outbox[i].by].finished

\* C4 as stated: neither the middleware invocation (line 18) nor the
\* completion callback ever throws, for any request body and captured body.
C4_NeverThrows ==
  /\ uncaught = {}
  /\ \A r \in Reqs : pc[r] # "idle" => RequestSize(req[r].body).ok

\* the text of a body as the claim has it serialized: objects (null among
\* them, typeof null being "object") as their JSON text, an absent body as
\* the empty text, any other value as its text
SerializedText(v) ==
  CASE v.t = "undefined" -> << >>
    [] v.t = "string" -> v.s
    [] v.t = "number" -> NumText(v.n)
    [] v.t = "boolean" -> BoolText(v.b)
    [] OTHER -> JSONstringify(v)

\* C5 as stated: in every record request.size and response.size are the
\* UTF-8 byte length of the serialized body divided by 1024.
C5_SizesAreByteLengths ==
  \A i \in 1..Len(outbox) :
    LET r == outbox[i].by
    IN /\ RecordOf(i).data.request.size
            = [num |-> Utf8Len(SerializedText(req[r].body)), den |-> 1024]
       /\ RecordOf(i).data.response.size
            = [num |-> Utf8Len(SerializedText(res[r].apiHatBody)), den |-> 1024]

\* C6: the record's error list holds exactly one descriptor, with source
\* "onException" and type "UNHANDLED_EXCEPTION", when res.locals carries an
\* error object as the callback runs, and is empty when it carries none.
C6_ErrorList ==
  \A i \in 1..Len(outbox) :
    LET errs == RecordOf(i).data.errors
        error == res[outbox[i].by].localsError
    IN IF error = Undefined
       THEN errs = << >>
       ELSE /\ Len(errs) = 1
            /\ errs[1].source = "onException"
            /\ errs[1].type = "UNHANDLED_EXCEPTION"
            /\ errs[1].message = error.message

\* a record sent for a response whose res.locals.error was set
C6_Witness ==
  \E i \in 1..Len(outbox) :
    /\ res[outbox[i].by].localsError # Undefined
    /\ Len(RecordOf(i).data.errors) = 1

\* C7 as stated: the record's request.body is the request's body (null when
\* absent), response.body is the payload the client was sent (null when
\* nothing was captured), response.code is the final status, and
\* response.size is positive when a non-empty body was sent.
C7_RecordReflectsTransaction ==
  \A i \in 1..Len(outbox) :
    LET r == outbox[i].by
        rec == RecordOf(i).data
    IN /\ rec.request.body = OrNull(req[r].body)
       /\ rec.response.body
            = IF res[r].apiHatBody = Undefined THEN Null ELSE res[r].payload
       /\ rec.response.code = res[r].statusCode
       /\ (res[r].payload # Undefined /\ res[r].payload # Str(<<>>))
            => rec.response.size.num > 0

\* the last argument a handler of request r passed to send or render in the
\* run without the middleware
LastPassed(r) ==
  IF bare[r].delivered = << >> THEN Undefined
  ELSE bare[r].delivered[Len(bare[r].delivered)].args[1]

C9_LoadTime ==
  \A i \in 1..Len(outbox) :
    LET lt == RecordOf(i).data.response.load_time
        elapsed == outbox[i].at - closure[outbox[i].by].enteredAt
    IN /\ lt >= 0
       /\ lt * 1000 >= elapsed
       /\ elapsed > (lt - 1) * 1000

\* a record whose elapsed time is no whole number of microseconds and whose
\* clock readings straddle a second, so the nanosecond difference borrows
C9_Witness ==
  \E i \in 1..Len(outbox) :
    LET elapsed == outbox[i].at - closure[outbox[i].by].enteredAt
    IN /\ elapsed % 1000 # 0
       /\ elapsed > 1000
       /\ Hrtime(outbox[i].at)[2] < closure[outbox[i].by].requestStartTime[2]

\* C10 as stated: every outbound call carries a JSON array holding exactly
\* one telemetry record, never a bare record object.
C10_OneRecordArray ==
  \A i \in 1..Len(outbox) :
    /\ outbox[i].call.body.json = "array"
    /\ Len(outbox[i].call.body.items) = 1

\* C11: in every outbound call the credential is both the record's api_key
\* field and the x-api-key header, the two are equal, and they are the
\* apiKey of the factory call that created the middleware which handled the
\* request, also with middlewares of different credentials active at once.
C11_Credential ==
  \A i \in 1..Len(outbox) :
    LET key == Factories[closure[outbox[i].by].mw].apiKey
    IN /\ RecordOf(i).api_key = key
       /\ outbox[i].call.headers.xApiKey = key
       /\ RecordOf(i).api_key = outbox[i].call.headers.xApiKey

\* two requests handled by middlewares of different credentials, both
\* reported, the second middleware's request first
C11_Witness ==
  /\ Len(outbox) = 2
  /\ closure[outbox[1].by].mw = 2
  /\ closure[outbox[2].by].mw = 1
  /\ outbox[1].call.headers.xApiKey = "key-B"
  /\ outbox[2].call.headers.xApiKey = "key-A"

\* masking maps, as the sets of field names they name: the empty map the
\* finish callback passes (line 41) and non-empty ones
MaskMaps == {{}, {"password"}, {"authorization", "password"}}

RECURSIVE NumberOfText(_)
NumberOfText(s) ==
  IF s = << >> THEN 0
  ELSE 10 * NumberOfText(SubSeq(s, 1, Len(s) - 1)) + (s[Len(s)] - 48)

\* C13 as stated: when the response carries a Content-Length header as the
\* finish callback runs, the record's response size is the number of that
\* header (in whatever unit); only when there is no header is it the byte
\* length of the captured body.
C13_HeaderPreferred ==
  \A i \in 1..Len(outbox) :
    LET r == outbox[i].by
        size == RecordOf(i).data.response.size
    IN IF res[r].contentLength # Undefined
       THEN size.num = NumberOfText(res[r].contentLength.s)
       ELSE size.num = Utf8Len(SerializedText(res[r].apiHatBody))

\* C14 as stated: after any sequence of calls of the wrapped send and render,
\* the scratch field holds the payload the most recent of them emits: the
\* body passed to send, the rendered page for render (with or without a
\* callback).
C14_ScratchIsEmitted ==
  \A r \in Reqs :
    res[r].delivered # << >> =>
      LET last == res[r].delivered[Len(res[r].delivered)]
      IN res[r].apiHatBody
           = IF last.op = "send" THEN last.args[1] ELSE Rendered(last.args[1])

\* C15 as stated: each call of a wrapper reaches the original exactly once
\* with the same arguments, and the caller gets the value the original
\* returns: what the call site of the last send or render got back is what
\* it gets in the run without the middleware.
C15_SameCallsAndResult ==
  \A r \in Reqs :
    /\ Len(res[r].delivered) = Len(bare[r].delivered)
    /\ \A k \in 1..Len(res[r].delivered) :
         /\ res[r].delivered[k].op = bare[r].delivered[k].op
         /\ res[r].delivered[k].args = bare[r].delivered[k].args
    /\ res[r].returned = bare[r].returned

\* C16: in every invocation the start time is taken and both wrappers are
\* installed before next() is called; next() is called once, inside the
\* invocation (which has not returned while the pipeline runs in it); the
\* finish listener is registered only after next() has returned; and every
\* call a handler makes of send or render finds both methods wrapped.
C16_Order ==
  [][\A r \in Reqs :
       /\ (pc[r] # "in_next" /\ pc'[r] = "in_next") =>
            /\ pc[r] = "wrapped"
            /\ running = r
            /\ closure[r].requestStartTime = Hrtime(closure[r].enteredAt)
            /\ res[r].send = "wrapper"
            /\ res[r].render = "wrapper"
            /\ res[r].listeners = 0
            /\ res[r].delivered = << >>
       /\ pc[r] = "in_next" => (running = r /\ pc'[r] \in {"in_next", "listening"})
       /\ pc[r] = "listening" => pc'[r] = "listening"
       /\ res'[r].listeners # res[r].listeners =>
            /\ pc[r] = "in_next"
            /\ pc'[r] = "listening"
            /\ res[r].listeners = 0
            /\ res'[r].listeners = 1
       /\ res'[r].delivered # res[r].delivered =>
            /\ res[r].send = "wrapper"
            /\ res[r].render = "wrapper"
            /\ pc[r] \in {"in_next", "listening"}]_vars

\* an invocation that has returned with its listener registered, whose
\* handlers called send and then render, both through the wrappers
C16_Witness ==
  \E r \in Reqs :
    /\ pc[r] = "listening"
    /\ res[r].listeners = 1
    /\ Len(res[r].delivered) = 2
    /\ res[r].delivered[1].op = "send"
    /\ res[r].delivered[2].op = "render"
    /\ res[r].apiHatBody = Str(TextIndex)

\* the outbound calls issued for request r
CallsFor(r) == {i \in 1..Len(outbox) : outbox[i].by = r}

\* C17 as stated: each run of the completion callback issues exactly one
\* outbound call; no call is issued for a request before its finish event;
\* and whatever the outcome of the call (transport failure, non-success
\* status), no further call is issued for the request.
C17_OneTransmission ==
  \A r \in Reqs :
    /\ Cardinality(CallsFor(r)) = cbRuns[r]
    /\ CallsFor(r) # {} => res[r].finished
    /\ Cardinality(CallsFor(r)) <= 1

\* the response of request r with the method references, the finish
\* subscription and the record of the calls made on it set to those of the
\* same response in the run without the middleware
DataOf(r) ==
  [res[r] EXCEPT !.send = bare[r].send,
                 !.render = bare[r].render,
                 !.listeners = bare[r].listeners,
                 !.delivered = bare[r].delivered,
                 !.returned = bare[r].returned]

\* C18 as stated: apart from the send and render method references of the
\* request's own response, the invocation and its completion callback write
\* no request field and no response field (status, headers, res.locals or
\* any other), and a response the middleware has not wrapped is untouched.
C18_OnlyMethods ==
  \A r \in Reqs :
    /\ req[r] = RequestOf(r, req[r].body)
    /\ DataOf(r) = bare[r]
    /\ pc[r] \in {"idle", "entered"} => res[r] = FreshResponse

\* C18 as amended: the same, except that the wrappers also write the scratch
\* field __apiHat_body_response of the request's own response, which holds
\* nothing but what that request's own handlers passed last.
C18_Frame ==
  \A r \in Reqs :
    /\ req[r] = RequestOf(r, req[r].body)
    /\ [DataOf(r) EXCEPT !.apiHatBody = Undefined] = bare[r]
    /\ res[r].apiHatBody = LastPassed(r)
    /\ pc[r] \in {"idle", "entered"} => res[r] = FreshResponse

\* one request reported after its handlers set a status and an error and
\* sent a body, while the response of another request, entered but not yet
\* wrapped, is as the framework made it
C18_Witness ==
  \E r, q \in Reqs :
    /\ r # q
    /\ CallsFor(r) # {}
    /\ res[r].finished
    /\ res[r].apiHatBody # Undefined
    /\ res[r].statusCode = 500
    /\ res[r].localsError # Undefined
    /\ pc[q] = "entered"
    /\ res[q] = FreshResponse

=============================================================================
